---- MODULE Spec2Model ----
(***************************************************************************)
(* Usage-quota engine of the-romy: lib/usage.ts (checkUsage,               *)
(* incrementUsage, checkProUsage, incrementProUsage and the ByModel        *)
(* dispatchers), the tier table of lib/subscriptions/config.ts, the Polar  *)
(* webhook handler that writes the entitlement columns, and the access     *)
(* helpers of lib/subscriptions/check-access.ts,                           *)
(* lib/subscription/autumn-client.ts and of the Polar access module.       *)
(*                                                                         *)
(* The "users" table is the variable users.  Every request handler is a    *)
(* process; each await on the store is one atomic step of the store, and   *)
(* the synchronous code between two awaits is one step of the process.     *)
(* The columns premium and last_active_at are left out: no modelled        *)
(* operation reads them.                                                   *)
(***************************************************************************)
EXTENDS Integers, FiniteSets, Sequences, TLC

(***************************************************************************)
(* Bounds of the model.  The caps stand for the program's limits (1000 a   *)
(* day, 100 a month, ...), scaled down so that a counter can reach them.   *)
(***************************************************************************)
TicksPerDay == 2
DaysPerMonth == 2
MonthsPerYear == 2
MaxCount == 3
FreeDailyCap == 3
ProMonthlyCap == 2
AnonDailyCap == 2
ProModelDailyCap == 2

NULL == 0 - 1
Infinity == 0 - 2

\* SQL NULL of a text column (subscription_tier, subscription_status).
NoStatus == "null"

(***************************************************************************)
(* Time.  A timestamp is a number of ticks since the epoch; the clock      *)
(* visits the epoch, a later instant of the same UTC day, the next day,    *)
(* the same day-of-month of the next month and of the next year.           *)
(***************************************************************************)
TicksPerMonth == TicksPerDay * DaysPerMonth
TicksPerYear == TicksPerMonth * MonthsPerYear
ClockValues == {0, 1, TicksPerDay, TicksPerMonth, TicksPerYear}

getUTCFullYear(t) == t \div TicksPerYear
getUTCMonth(t) == (t \div TicksPerMonth) % MonthsPerYear
getUTCDate(t) == ((t \div TicksPerDay) % DaysPerMonth) + 1

\* The mutant of isNewDay: an elapsed-duration test instead of a calendar test.
isNewDayElapsed(lastReset, nowv) ==
  lastReset = NULL \/ nowv - lastReset >= TicksPerDay

isNewDay(lastReset, nowv) ==
  \/ lastReset = NULL
  \/ getUTCFullYear(nowv) # getUTCFullYear(lastReset)
  \/ getUTCMonth(nowv) # getUTCMonth(lastReset)
  \/ getUTCDate(nowv) # getUTCDate(lastReset)

\* Two instants of one UTC calendar day.
SameUTCDay(a, b) == a \div TicksPerDay = b \div TicksPerDay

(***************************************************************************)
(* Configuration.                                                          *)
(***************************************************************************)
Tiers == {"free", "pro", "max", "ultra"}
Statuses == {"active", "canceled", "past_due", NoStatus}

\* The mutant of TIER_LIMITS: the max tier with the free tier's daily limit.
TIER_LIMITS_MaxCapped ==
  [free  |-> [dailyMessages |-> FreeDailyCap, monthlyMessages |-> NULL,
              proModels |-> FALSE, premiumModels |-> FALSE],
   pro   |-> [dailyMessages |-> Infinity, monthlyMessages |-> ProMonthlyCap,
              proModels |-> TRUE, premiumModels |-> FALSE],
   max   |-> [dailyMessages |-> FreeDailyCap, monthlyMessages |-> NULL,
              proModels |-> TRUE, premiumModels |-> FALSE],
   ultra |-> [dailyMessages |-> Infinity, monthlyMessages |-> NULL,
              proModels |-> TRUE, premiumModels |-> TRUE]]

TIER_LIMITS ==
  [free  |-> [dailyMessages |-> FreeDailyCap, monthlyMessages |-> NULL,
              proModels |-> FALSE, premiumModels |-> FALSE],
   pro   |-> [dailyMessages |-> Infinity, monthlyMessages |-> ProMonthlyCap,
              proModels |-> TRUE, premiumModels |-> FALSE],
   max   |-> [dailyMessages |-> Infinity, monthlyMessages |-> NULL,
              proModels |-> TRUE, premiumModels |-> FALSE],
   ultra |-> [dailyMessages |-> Infinity, monthlyMessages |-> NULL,
              proModels |-> TRUE, premiumModels |-> TRUE]]

NON_AUTH_DAILY_MESSAGE_LIMIT == AnonDailyCap
DAILY_LIMIT_PRO_MODELS == ProModelDailyCap

ModelIds == {"free-model", "pro-model"}
FREE_MODELS_IDS == {"free-model"}
isFreeModel(modelId) == modelId \in FREE_MODELS_IDS
isProModel(modelId) == ~isFreeModel(modelId)

(***************************************************************************)
(* The store.                                                              *)
(***************************************************************************)
UserIds == {"u1", "nobody"}
Procs == {"p1", "p2"}

NewUser(anon) ==
  [message_count |-> 0,
   daily_message_count |-> 0,
   daily_reset |-> NULL,
   anonymous |-> anon,
   subscription_tier |-> "free",
   subscription_status |-> NoStatus,
   monthly_message_count |-> 0,
   monthly_reset |-> 0,
   subscription_period_end |-> NULL,
   daily_pro_message_count |-> 0,
   daily_pro_reset |-> NULL]

CheckUsageCols ==
  {"message_count", "daily_message_count", "daily_reset", "anonymous",
   "subscription_tier", "subscription_status", "monthly_message_count",
   "monthly_reset", "subscription_period_end"}
IncrementUsageCols ==
  {"message_count", "daily_message_count", "monthly_message_count",
   "subscription_tier", "subscription_status"}
CheckProUsageCols == {"daily_pro_message_count", "daily_pro_reset"}
IncrementProUsageCols == {"daily_pro_message_count"}

\* supabase.from("users").select(cols).eq("id", id).maybeSingle(), on a row.
Select(rec, cols) == [c \in cols |-> rec[c]]
NoData == Select(NewUser(FALSE), {})

\* supabase.from("users").update(data): the row with data's columns replaced.
Update(rec, data) ==
  [c \in DOMAIN rec |-> IF c \in DOMAIN data THEN data[c] ELSE rec[c]]

\* The mutant of UpdateWhere: the update without its .eq("id", userId) filter.
UpdateAll(tbl, id, data) ==
  [u \in DOMAIN tbl |-> Update(tbl[u], data)]

\* supabase.from("users").update(data).eq("id", userId): the table after it.
UpdateWhere(tbl, id, data) ==
  [u \in DOMAIN tbl |-> IF u = id THEN Update(tbl[u], data) ELSE tbl[u]]

VARIABLES
  now,        \* the wall clock
  users,      \* the users table: id -> row
  pc,         \* per request handler: the await it is at
  op,         \* the function it runs
  uid,        \* its userId argument
  snap,       \* the row its select returned (userData)
  tnow,       \* its local now = new Date()
  wrote,      \* the counter families it has reset
  outcome,    \* what it returned or threw
  session,    \* the chat being served: its modelId and isAuthenticated
  committed,  \* history: per user, incrementUsage calls that returned successfully
  checked,    \* history: per user, the last request was an allowed checkUsage
              \* evaluated in the current UTC day
  pairs,      \* history: per user, consecutive (allowed checkUsage, successful
              \* incrementUsage) pairs completed in the current UTC day
  autumnEnabled,  \* AUTUMN_SECRET_KEY is set
  autumnReply,    \* what Autumn's check answered to the last call
  access,         \* the last checkMessageAccess call and what it returned
  answers,        \* per access helper of check-access.ts: what its call on
                  \* the stored row returned
  delivered,      \* history: the last subscription event the webhook
                  \* handler was called with
  polar           \* the last call of a Polar access helper: what Polar
                  \* answered and what the helper returned

vars ==
  <<now, users, pc, op, uid, snap, tnow, wrote, outcome, session, committed,
    checked, pairs, autumnEnabled, autumnReply, access, answers, delivered,
    polar>>
accessVars == <<autumnEnabled, autumnReply, access, answers, delivered, polar>>
procVars == <<pc, op, uid, snap, tnow, wrote, outcome>>

UsageLimitErrors == {"limit_monthly", "limit_daily", "limit_pro", "limit_login"}
\* A TypeError of the runtime: a property read of undefined.
TypeErrors == {"error_type"}
StoreErrors ==
  {"error_fetch", "error_notfound", "error_reset_monthly", "error_reset_daily",
   "error_reset_pro", "error_update"}

Ready(p) == pc[p] = "idle"


\* A handler that returns or throws: its position, and what the caller sees.
Finish(p, result) ==
  /\ pc' = [pc EXCEPT ![p] = "done"]
  /\ outcome' = [outcome EXCEPT ![p] = result]

\* A handler that enters function f for user u, at position at.
Enter(p, f, u, at, result) ==
  /\ pc' = [pc EXCEPT ![p] = at]
  /\ op' = [op EXCEPT ![p] = f]
  /\ uid' = [uid EXCEPT ![p] = u]
  /\ snap' = [snap EXCEPT ![p] = NoData]
  /\ tnow' = [tnow EXCEPT ![p] = NULL]
  /\ wrote' = [wrote EXCEPT ![p] = {}]
  /\ outcome' = [outcome EXCEPT ![p] = result]

(***************************************************************************)
(* checkUsage                                                              *)
(***************************************************************************)
\* Line 42: subscription_tier || 'free'.  The counts' "|| 0" is the identity:
\* the integer columns are never NULL.
tierOf(d) ==
  IF d.subscription_tier = NoStatus THEN "free" ELSE d.subscription_tier
isProActive(d) == tierOf(d) = "pro" /\ d.subscription_status = "active"

dailyLimitOf(d) ==
  IF d.anonymous THEN NON_AUTH_DAILY_MESSAGE_LIMIT
  ELSE TIER_LIMITS[tierOf(d)].dailyMessages

\* The mutant of dailyLimitReached: > for >=.
dailyLimitReachedStrict(d, dailyCount) ==
  dailyLimitOf(d) # Infinity /\ dailyCount > dailyLimitOf(d)

\* usage.ts line 104.
dailyLimitReached(d, dailyCount) ==
  dailyLimitOf(d) # Infinity /\ dailyCount >= dailyLimitOf(d)

\* usage.ts line 70.
monthlyLimitReached(d, monthlyCount) ==
  /\ TIER_LIMITS[tierOf(d)].monthlyMessages # NULL
  /\ monthlyCount >= TIER_LIMITS[tierOf(d)].monthlyMessages

\* The mutant of monthlyResetDue: a fixed window since the last monthly reset.
monthlyResetDueWindow(d, nowv) == nowv - d.monthly_reset >= TicksPerMonth

\* usage.ts line 54.
monthlyResetDue(d, nowv) ==
  d.subscription_period_end # NULL /\ nowv >= d.subscription_period_end

\* lib/subscriptions/check-access.ts, needsMonthlyReset: the same rule as a
\* helper, for the pro tier whatever the status.
needsMonthlyReset(user, nowv) ==
  IF tierOf(user) # "pro" THEN FALSE
  ELSE IF user.subscription_period_end = NULL THEN FALSE
  ELSE nowv >= user.subscription_period_end

\* lib/subscriptions/check-access.ts, getRemainingMessages: the messages left
\* under the tier's monthly limit, NULL for none (unlimited).
getRemainingMessages(user) ==
  IF TIER_LIMITS[tierOf(user)].monthlyMessages = NULL THEN NULL
  ELSE IF TIER_LIMITS[tierOf(user)].monthlyMessages - user.monthly_message_count > 0
       THEN TIER_LIMITS[tierOf(user)].monthlyMessages - user.monthly_message_count
       ELSE 0

\* Lines 103-114: the daily limit against the post-reset count.
checkUsageDaily(d, dailyCount) ==
  IF dailyLimitReached(d, dailyCount) THEN "limit_daily" ELSE "allowed"

\* The mutant of checkUsageFromDaily: the limit is evaluated on the count as
\* read, the reset is written afterwards.
checkUsageFromDailyLate(d, nowv) ==
  IF dailyLimitReached(d, d.daily_message_count)
  THEN [pc |-> "done", outcome |-> "limit_daily"]
  ELSE IF isNewDay(d.daily_reset, nowv)
       THEN [pc |-> "cu_dailyReset", outcome |-> "pending"]
       ELSE [pc |-> "done", outcome |-> "allowed"]

\* Line 43: TIER_LIMITS[tier] is undefined for a tier that is no key of the
\* table.
tierLimitsDefined(d) == tierOf(d) \in DOMAIN TIER_LIMITS

\* Lines 75-101: where the handler goes from the daily part on.  Reading
\* tierLimits.dailyMessages (line 78) of an undefined tierLimits throws.
checkUsageFromDaily(d, nowv) ==
  IF ~d.anonymous /\ ~tierLimitsDefined(d)
  THEN [pc |-> "done", outcome |-> "error_type"]
  ELSE IF isNewDay(d.daily_reset, nowv)
       THEN [pc |-> "cu_dailyReset", outcome |-> "pending"]
       ELSE [pc |-> "done", outcome |-> checkUsageDaily(d, d.daily_message_count)]

\* The mutant of checkUsageFromMonthlyLimit: the daily part runs first.
checkUsageDailyFirst(d, monthlyCount, nowv) ==
  IF isNewDay(d.daily_reset, nowv)
  THEN [pc |-> "cu_dailyReset", outcome |-> "pending"]
  ELSE IF monthlyLimitReached(d, monthlyCount)
       THEN [pc |-> "done", outcome |-> "limit_monthly"]
       ELSE [pc |-> "done", outcome |-> checkUsageDaily(d, d.daily_message_count)]

\* Lines 69-73, then the daily part.
checkUsageFromMonthlyLimit(d, monthlyCount, nowv) ==
  IF monthlyLimitReached(d, monthlyCount)
  THEN [pc |-> "done", outcome |-> "limit_monthly"]
  ELSE checkUsageFromDaily(d, nowv)

\* Lines 41-54: the synchronous code after the select.
checkUsageAfterSelect(d, nowv) ==
  IF isProActive(d)
  THEN IF monthlyResetDue(d, nowv)
       THEN [pc |-> "cu_monthlyReset", outcome |-> "pending"]
       ELSE checkUsageFromMonthlyLimit(d, d.monthly_message_count, nowv)
  ELSE checkUsageFromDaily(d, nowv)

\* The mutant of monthlyResetData: the reset also moves the billing period.
monthlyResetDataAdvance(nowv) ==
  [monthly_message_count |-> 0, monthly_reset |-> nowv,
   subscription_period_end |-> nowv + TicksPerMonth]

\* Lines 58-61: the columns the monthly reset writes.
monthlyResetData(nowv) == [monthly_message_count |-> 0, monthly_reset |-> nowv]

\* The mutant of dailyResetData: the check counts the message itself.
dailyResetDataCounting(nowv) == [daily_message_count |-> 1, daily_reset |-> nowv]

\* Line 95: the columns the daily reset writes.
dailyResetData(nowv) == [daily_message_count |-> 0, daily_reset |-> nowv]

\* The mutant of CheckUsage_Select: a missing record is read as a new user's.
CheckUsage_SelectLenient(p) ==
  /\ pc[p] = "cu_select"
  /\ \/ /\ Finish(p, "error_fetch")
        /\ UNCHANGED snap
     \/ /\ snap' = [snap EXCEPT ![p] =
                      IF uid[p] \in DOMAIN users
                      THEN Select(users[uid[p]], CheckUsageCols)
                      ELSE Select(NewUser(FALSE), CheckUsageCols)]
        /\ pc' = [pc EXCEPT ![p] = "cu_eval"]
        /\ UNCHANGED outcome
  /\ UNCHANGED <<now, users, op, uid, tnow, wrote, session, accessVars, committed, checked, pairs>>

\* Lines 26-39: the select.
CheckUsage_Select(p) ==
  /\ pc[p] = "cu_select"
  /\ \/ /\ Finish(p, "error_fetch")
        /\ UNCHANGED snap
     \/ /\ uid[p] \notin DOMAIN users
        /\ Finish(p, "error_notfound")
        /\ UNCHANGED snap
     \/ /\ uid[p] \in DOMAIN users
        /\ snap' = [snap EXCEPT ![p] = Select(users[uid[p]], CheckUsageCols)]
        /\ pc' = [pc EXCEPT ![p] = "cu_eval"]
        /\ UNCHANGED outcome
  /\ UNCHANGED <<now, users, op, uid, tnow, wrote, session, accessVars, committed, checked, pairs>>

\* Lines 41-95 up to the first update, or to the return.
CheckUsage_Eval(p) ==
  /\ pc[p] = "cu_eval"
  /\ tnow' = [tnow EXCEPT ![p] = now]
  /\ pc' = [pc EXCEPT ![p] = checkUsageAfterSelect(snap[p], now).pc]
  /\ outcome' = [outcome EXCEPT ![p] = checkUsageAfterSelect(snap[p], now).outcome]
  /\ UNCHANGED <<now, users, op, uid, snap, wrote, session, accessVars, committed, checked, pairs>>

\* Lines 56-67: the monthly reset write.
CheckUsage_MonthlyReset(p) ==
  /\ pc[p] = "cu_monthlyReset"
  /\ \/ /\ Finish(p, "error_reset_monthly")
        /\ UNCHANGED <<users, wrote>>
     \/ /\ users' = UpdateWhere(users, uid[p], monthlyResetData(tnow[p]))
        /\ wrote' = [wrote EXCEPT ![p] = @ \cup {"monthly"}]
        /\ pc' = [pc EXCEPT ![p] = "cu_afterMonthly"]
        /\ UNCHANGED outcome
  /\ UNCHANGED <<now, op, uid, snap, tnow, session, accessVars, committed, checked, pairs>>

\* Lines 69-95 after a monthly reset: monthlyCount is 0, now is read again.
CheckUsage_AfterMonthly(p) ==
  /\ pc[p] = "cu_afterMonthly"
  /\ tnow' = [tnow EXCEPT ![p] = now]
  /\ pc' = [pc EXCEPT ![p] = checkUsageFromMonthlyLimit(snap[p], 0, now).pc]
  /\ outcome' =
       [outcome EXCEPT ![p] = checkUsageFromMonthlyLimit(snap[p], 0, now).outcome]
  /\ UNCHANGED <<now, users, op, uid, snap, wrote, session, accessVars, committed, checked, pairs>>

\* The mutant of CheckUsage_DailyReset: a failed reset write is ignored.
CheckUsage_DailyResetSwallow(p) ==
  /\ pc[p] = "cu_dailyReset"
  /\ \/ /\ Finish(p, checkUsageDaily(snap[p], 0))
        /\ UNCHANGED <<users, wrote>>
     \/ /\ users' = UpdateWhere(users, uid[p], dailyResetData(tnow[p]))
        /\ wrote' = [wrote EXCEPT ![p] = @ \cup {"daily"}]
        /\ Finish(p, checkUsageDaily(snap[p], 0))
  /\ UNCHANGED <<now, op, uid, snap, tnow, session, accessVars, committed, checked, pairs>>

\* Lines 91-114: the daily reset write, then the limit on dailyCount = 0.
CheckUsage_DailyReset(p) ==
  /\ pc[p] = "cu_dailyReset"
  /\ \/ /\ Finish(p, "error_reset_daily")
        /\ UNCHANGED <<users, wrote>>
     \/ /\ users' = UpdateWhere(users, uid[p], dailyResetData(tnow[p]))
        /\ wrote' = [wrote EXCEPT ![p] = @ \cup {"daily"}]
        /\ Finish(p, checkUsageDaily(snap[p], 0))
  /\ UNCHANGED <<now, op, uid, snap, tnow, session, accessVars, committed, checked, pairs>>

\* Lines 108-114: the object checkUsage returns.  dailyCount is the local
\* variable, 0 after the daily reset; monthlyCount is read from userData.
checkUsageReturn(p) ==
  [dailyCount |-> IF "daily" \in wrote[p] THEN 0 ELSE snap[p].daily_message_count,
   dailyLimit |-> dailyLimitOf(snap[p]),
   tier |-> tierOf(snap[p]),
   monthlyCount |-> snap[p].monthly_message_count]

(***************************************************************************)
(* incrementUsage                                                          *)
(***************************************************************************)
\* The mutant of updateData: the daily count is written back as read.
updateDataNoDaily(d) ==
  IF isProActive(d)
  THEN [message_count |-> d.message_count + 1,
        daily_message_count |-> d.daily_message_count,
        monthly_message_count |-> d.monthly_message_count + 1]
  ELSE [message_count |-> d.message_count + 1,
        daily_message_count |-> d.daily_message_count]

\* The mutant of updateData: a commit that counts a message once only.
updateDataOnce(d) ==
  IF isProActive(d)
  THEN [message_count |-> IF d.message_count = 0 THEN 1 ELSE d.message_count,
        daily_message_count |-> d.daily_message_count + 1,
        monthly_message_count |-> d.monthly_message_count + 1]
  ELSE [message_count |-> IF d.message_count = 0 THEN 1 ELSE d.message_count,
        daily_message_count |-> d.daily_message_count + 1]

\* The mutant of updateData: the overall count is written back as read.
updateDataNoOverall(d) ==
  IF isProActive(d)
  THEN [message_count |-> d.message_count,
        daily_message_count |-> d.daily_message_count + 1,
        monthly_message_count |-> d.monthly_message_count + 1]
  ELSE [message_count |-> d.message_count,
        daily_message_count |-> d.daily_message_count + 1]

\* The mutant of updateData: a commit that counts down.
updateDataDown(d) ==
  IF isProActive(d)
  THEN [message_count |-> d.message_count - 1,
        daily_message_count |-> d.daily_message_count - 1,
        monthly_message_count |-> d.monthly_message_count - 1]
  ELSE [message_count |-> d.message_count - 1,
        daily_message_count |-> d.daily_message_count - 1]

\* The mutant of updateData: the monthly count is raised for every tier.
updateDataAlwaysMonthly(d) ==
  [message_count |-> d.message_count + 1,
   daily_message_count |-> d.daily_message_count + 1,
   monthly_message_count |-> d.monthly_message_count + 1]

\* Lines 143-161: the columns the update writes.
updateData(d) ==
  IF isProActive(d)
  THEN [message_count |-> d.message_count + 1,
        daily_message_count |-> d.daily_message_count + 1,
        monthly_message_count |-> d.monthly_message_count + 1]
  ELSE [message_count |-> d.message_count + 1,
        daily_message_count |-> d.daily_message_count + 1]

\* Lines 130-141.
IncrementUsage_Select(p) ==
  /\ pc[p] = "iu_select"
  /\ \/ /\ Finish(p, "error_fetch")
        /\ UNCHANGED snap
     \/ /\ uid[p] \notin DOMAIN users
        /\ Finish(p, "error_notfound")
        /\ UNCHANGED snap
     \/ /\ uid[p] \in DOMAIN users
        /\ snap' = [snap EXCEPT ![p] = Select(users[uid[p]], IncrementUsageCols)]
        /\ pc' = [pc EXCEPT ![p] = "iu_update"]
        /\ UNCHANGED outcome
  /\ UNCHANGED <<now, users, op, uid, tnow, wrote, session, accessVars, committed, checked, pairs>>

\* Lines 163-170.
IncrementUsage_Update(p) ==
  /\ pc[p] = "iu_update"
  /\ \/ /\ Finish(p, "error_update")
        /\ UNCHANGED <<users, committed>>
     \/ /\ users' = UpdateWhere(users, uid[p], updateData(snap[p]))
        /\ committed' = [committed EXCEPT ![uid[p]] = @ + 1]
        /\ Finish(p, "ok")
  /\ UNCHANGED <<now, op, uid, snap, tnow, wrote, session, accessVars, checked, pairs>>

(***************************************************************************)
(* checkProUsage                                                           *)
(***************************************************************************)
\* usage.ts lines 214-221.
checkProUsageLimit(dailyProCount) ==
  IF dailyProCount >= DAILY_LIMIT_PRO_MODELS THEN "limit_pro" ELSE "allowed"

\* Lines 187-199: the synchronous code after the select.
checkProUsageAfterSelect(d, nowv) ==
  IF isNewDay(d.daily_pro_reset, nowv)
  THEN [pc |-> "cpu_reset", outcome |-> "pending"]
  ELSE [pc |-> "done", outcome |-> checkProUsageLimit(d.daily_pro_message_count)]

\* Lines 203-206: the columns the pro-model reset writes.
proResetData(nowv) == [daily_pro_message_count |-> 0, daily_pro_reset |-> nowv]

\* Lines 174-185.
CheckProUsage_Select(p) ==
  /\ pc[p] = "cpu_select"
  /\ \/ /\ Finish(p, "error_fetch")
        /\ UNCHANGED snap
     \/ /\ uid[p] \notin DOMAIN users
        /\ Finish(p, "error_notfound")
        /\ UNCHANGED snap
     \/ /\ uid[p] \in DOMAIN users
        /\ snap' = [snap EXCEPT ![p] = Select(users[uid[p]], CheckProUsageCols)]
        /\ pc' = [pc EXCEPT ![p] = "cpu_eval"]
        /\ UNCHANGED outcome
  /\ UNCHANGED <<now, users, op, uid, tnow, wrote, session, accessVars, committed, checked, pairs>>

\* Lines 187-207 up to the update, or to the return.
CheckProUsage_Eval(p) ==
  /\ pc[p] = "cpu_eval"
  /\ tnow' = [tnow EXCEPT ![p] = now]
  /\ pc' = [pc EXCEPT ![p] = checkProUsageAfterSelect(snap[p], now).pc]
  /\ outcome' =
       [outcome EXCEPT ![p] = checkProUsageAfterSelect(snap[p], now).outcome]
  /\ UNCHANGED <<now, users, op, uid, snap, wrote, session, accessVars, committed, checked, pairs>>

\* Lines 199-221: the reset write, then the limit on dailyProCount = 0.
CheckProUsage_Reset(p) ==
  /\ pc[p] = "cpu_reset"
  /\ \/ /\ Finish(p, "error_reset_pro")
        /\ UNCHANGED <<users, wrote>>
     \/ /\ users' = UpdateWhere(users, uid[p], proResetData(tnow[p]))
        /\ wrote' = [wrote EXCEPT ![p] = @ \cup {"pro"}]
        /\ Finish(p, checkProUsageLimit(0))
  /\ UNCHANGED <<now, op, uid, snap, tnow, session, accessVars, committed, checked, pairs>>

(***************************************************************************)
(* incrementProUsage                                                       *)
(***************************************************************************)
\* The mutant of proUpdateData: the pro-model commit also counts a standard
\* message.
proUpdateDataBoth(d) ==
  [daily_pro_message_count |-> d.daily_pro_message_count + 1,
   daily_message_count |-> d.daily_pro_message_count + 1]

\* Lines 238-245: the columns the update writes.
proUpdateData(d) == [daily_pro_message_count |-> d.daily_pro_message_count + 1]

\* Lines 228-236.
IncrementProUsage_Select(p) ==
  /\ pc[p] = "ipu_select"
  /\ \/ /\ Finish(p, "error_fetch")
        /\ UNCHANGED snap
     \/ /\ uid[p] \notin DOMAIN users
        /\ Finish(p, "error_notfound")
        /\ UNCHANGED snap
     \/ /\ uid[p] \in DOMAIN users
        /\ snap' = [snap EXCEPT ![p] = Select(users[uid[p]], IncrementProUsageCols)]
        /\ pc' = [pc EXCEPT ![p] = "ipu_update"]
        /\ UNCHANGED outcome
  /\ UNCHANGED <<now, users, op, uid, tnow, wrote, session, accessVars, committed, checked, pairs>>

\* Lines 238-250.
IncrementProUsage_Update(p) ==
  /\ pc[p] = "ipu_update"
  /\ \/ /\ Finish(p, "error_update")
        /\ UNCHANGED users
     \/ /\ users' = UpdateWhere(users, uid[p], proUpdateData(snap[p]))
        /\ Finish(p, "ok")
  /\ UNCHANGED <<now, op, uid, snap, tnow, wrote, session, accessVars, committed, checked, pairs>>

(***************************************************************************)
(* The dispatchers                                                         *)
(***************************************************************************)
\* The mutant of checkUsageByModelTarget: no log-in test for a pro model.
checkUsageByModelNoLogin(modelId, isAuthenticated) ==
  IF isProModel(modelId) THEN "checkProUsage" ELSE "checkUsage"

\* Where checkUsageByModel goes: lines 259-266.
checkUsageByModelTarget(modelId, isAuthenticated) ==
  IF isProModel(modelId)
  THEN IF ~isAuthenticated THEN "throw" ELSE "checkProUsage"
  ELSE "checkUsage"

\* The mutant of incrementUsageByModelTarget: every commit is a standard one.
incrementUsageByModelStandard(modelId, isAuthenticated) == "incrementUsage"

\* Where incrementUsageByModel goes: lines 275-280.
incrementUsageByModelTarget(modelId, isAuthenticated) ==
  IF isProModel(modelId)
  THEN IF ~isAuthenticated THEN "return" ELSE "incrementProUsage"
  ELSE "incrementUsage"

\* Counters are capped at MaxCount: a commit starts only below the cap.
BelowCap(u) ==
  u \in DOMAIN users =>
    /\ committed[u] < MaxCount
    /\ users[u].daily_pro_message_count < MaxCount

CheckUsageByModel(p, u, modelId, isAuthenticated) ==
  /\ Ready(p)
  /\ LET target == checkUsageByModelTarget(modelId, isAuthenticated) IN
       CASE target = "throw" ->
              Enter(p, "checkUsageByModel", u, "done", "limit_login")
         [] target = "checkProUsage" ->
              Enter(p, "checkProUsage", u, "cpu_select", "pending")
         [] OTHER ->
              Enter(p, "checkUsage", u, "cu_select", "pending")
  /\ UNCHANGED <<now, users, session, accessVars, committed, checked, pairs>>

IncrementUsageByModel(p, u, modelId, isAuthenticated) ==
  /\ Ready(p)
  /\ BelowCap(u)
  /\ LET target == incrementUsageByModelTarget(modelId, isAuthenticated) IN
       CASE target = "return" ->
              Enter(p, "incrementUsageByModel", u, "done", "skipped")
         [] target = "incrementProUsage" ->
              Enter(p, "incrementProUsage", u, "ipu_select", "pending")
         [] OTHER ->
              Enter(p, "incrementUsage", u, "iu_select", "pending")
  /\ UNCHANGED <<now, users, session, accessVars, committed, checked, pairs>>

(***************************************************************************)
(* The Polar webhook handler                                               *)
(***************************************************************************)
ProductIds == {"pro", "max", "ultra", "other"}
PolarStatuses == {"active", "canceled", "past_due", "incomplete"}

\* TIER_MAP[productId] || 'free'
tierOfProduct(productId) ==
  IF productId \in {"pro", "max", "ultra"} THEN productId ELSE "free"

\* onSubscriptionUpdated: Polar's status to ours.
mapStatus(s) ==
  IF s \in {"active", "canceled", "past_due"} THEN s ELSE NoStatus

\* The period ends the processor sends: none, or a day boundary.
PeriodEnds == {NULL} \cup (ClockValues \ {0, 1})

\* The mutant of subscriptionUpdate: every event resets the monthly count.
subscriptionUpdateResetting(rec, tier, status, periodEnd) ==
  Update(rec, [subscription_tier |-> tier, subscription_status |-> status,
               subscription_period_end |-> periodEnd,
               monthly_message_count |-> 0])

\* The row after updateUserSubscription's update; a failed update is only
\* logged and changes nothing.
subscriptionUpdate(rec, tier, status, periodEnd) ==
  IF status = "active"
  THEN Update(rec, [subscription_tier |-> tier, subscription_status |-> status,
                    subscription_period_end |-> periodEnd,
                    monthly_message_count |-> 0])
  ELSE Update(rec, [subscription_tier |-> tier, subscription_status |-> status,
                    subscription_period_end |-> periodEnd])

updateUserSubscription(externalId, tier, status, periodEnd) ==
  /\ externalId \in DOMAIN users
  /\ \E stored \in BOOLEAN :
       users' = IF stored
                THEN [users EXCEPT ![externalId] =
                        subscriptionUpdate(@, tier, status, periodEnd)]
                ELSE users
  /\ UNCHANGED <<now, session, committed, checked, pairs, procVars>>

OnSubscriptionCreated(u, productId, periodEnd) ==
  updateUserSubscription(u, tierOfProduct(productId), "active", periodEnd)

OnSubscriptionActive(u, productId, periodEnd) ==
  updateUserSubscription(u, tierOfProduct(productId), "active", periodEnd)

OnSubscriptionUpdated(u, productId, status, periodEnd) ==
  updateUserSubscription(u, tierOfProduct(productId), mapStatus(status), periodEnd)

OnSubscriptionCanceled(u, periodEnd) ==
  updateUserSubscription(u, "free", "canceled", periodEnd)

OnSubscriptionRevoked(u) ==
  updateUserSubscription(u, "free", NoStatus, NULL)

\* A subscription event as the handler receives it, numbered modulo 2.
Event(n, type, u, productId, status, periodEnd) ==
  [n |-> n, type |-> type, user |-> u, productId |-> productId,
   status |-> status, periodEnd |-> periodEnd]

\* No event has been delivered.
NoEvent == Event(0, "none", "nobody", "other", "incomplete", NULL)

(***************************************************************************)
(* The Autumn access helpers: checkMessageAccess of                        *)
(* lib/subscription/autumn-client.ts and of                                *)
(* lib/subscriptions/check-access.ts.  A JavaScript boolean that may be    *)
(* undefined is one of "true", "false", "undefined"; an absent number is   *)
(* NULL.                                                                   *)
(***************************************************************************)
MaybeBool == {"true", "false", "undefined"}

\* The data object of a check response.
AutumnData ==
  [kind : {"data", "bare"}, allowed : MaybeBool, balance : {NULL, 0, 1},
   unlimited : MaybeBool, limit : {NULL, ProMonthlyCap}]

\* What a call of Autumn's check can come to: it throws; it resolves to
\* { data: null, error }; to { data, error: null }; to the data object
\* itself ("bare"); to { data: null, error: null }; or to no object at all.
AutumnFailure(kind) ==
  [kind |-> kind, allowed |-> "undefined", balance |-> NULL,
   unlimited |-> "undefined", limit |-> NULL]
AutumnReplies ==
  AutumnData \cup
    {AutumnFailure(k) : k \in {"throws", "error", "null_data", "no_object"}}

\* No checkMessageAccess call has been made.
NoReply ==
  [kind |-> "none", allowed |-> "undefined", balance |-> NULL,
   unlimited |-> "undefined", limit |-> NULL]
NoAccess ==
  [fn |-> "none", allowed |-> "undefined", balance |-> NULL,
   unlimited |-> "undefined", limit |-> NULL]

\* x ?? true and x ?? false: the nullish defaults of autumn-client.ts line 76
\* and check-access.ts line 182.
orTrue(x) == IF x = "undefined" THEN "true" ELSE x
orFalse(x) == IF x = "undefined" THEN "false" ELSE x

\* The objects the two helpers return: autumn-client.ts's has no unlimited,
\* check-access.ts's no limit.
ClientResult(allowed, balance, limit) ==
  [fn |-> "autumn-client", allowed |-> allowed, balance |-> balance,
   unlimited |-> "undefined", limit |-> limit]
HelperResult(allowed, balance, unlimited) ==
  [fn |-> "check-access", allowed |-> allowed, balance |-> balance,
   unlimited |-> unlimited, limit |-> NULL]

\* autumn-client.ts lines 45-95, on the reply r of autumn.check.
checkMessageAccess_autumnClient(enabled, r) ==
  IF ~enabled THEN ClientResult("true", NULL, NULL)
  ELSE IF r.kind \in {"data", "bare"}
       THEN ClientResult(orTrue(r.allowed), r.balance, r.limit)
       ELSE ClientResult("true", NULL, NULL)

\* check-access.ts lines 163-193, on the reply r of Autumn.check.  Reading
\* data.allowed of a data that is null or undefined throws inside the try.
checkMessageAccess_checkAccess(r) ==
  IF r.kind = "error" THEN HelperResult("false", NULL, "false")
  ELSE IF r.kind = "data"
       THEN HelperResult(r.allowed, r.balance, orFalse(r.unlimited))
       ELSE HelperResult("true", NULL, "false")

\* A call of autumn-client.ts's checkMessageAccess: Autumn is asked only if
\* the secret key is set.
CheckMessageAccess_AutumnClient ==
  /\ \E r \in AutumnReplies :
       /\ autumnReply' = IF autumnEnabled THEN r ELSE NoReply
       /\ access' = checkMessageAccess_autumnClient(autumnEnabled, r)
  /\ UNCHANGED <<now, users, session, committed, checked, pairs, procVars,
                 autumnEnabled, answers, delivered, polar>>

\* A call of check-access.ts's checkMessageAccess.
CheckMessageAccess_CheckAccess ==
  /\ \E r \in AutumnReplies :
       /\ autumnReply' = r
       /\ access' = checkMessageAccess_checkAccess(r)
  /\ UNCHANGED <<now, users, session, committed, checked, pairs, procVars,
                 autumnEnabled, answers, delivered, polar>>

(***************************************************************************)
(* The synchronous access helpers of lib/subscriptions/check-access.ts, on *)
(* a row whose subscription_tier is a tier or NULL.                        *)
(***************************************************************************)
hasActiveSubscription(user) == user.subscription_status = "active"

hasProAccess(user) ==
  tierOf(user) \in {"pro", "max", "ultra"} /\ user.subscription_status = "active"

\* The mutant of hasMaxAccess: the max tier only.
hasMaxAccessMaxOnly(user) ==
  tierOf(user) = "max" /\ user.subscription_status = "active"

hasMaxAccess(user) ==
  tierOf(user) \in {"max", "ultra"} /\ user.subscription_status = "active"

hasUltraAccess(user) ==
  tierOf(user) = "ultra" /\ user.subscription_status = "active"

canAccessProModels(user) ==
  IF tierOf(user) # "free" /\ user.subscription_status # "active" THEN FALSE
  ELSE TIER_LIMITS[tierOf(user)].proModels

canAccessPremiumModels(user) == hasUltraAccess(user)

hasMessageQuota(user) ==
  IF tierOf(user) # "free" /\ user.subscription_status # "active" THEN FALSE
  ELSE IF tierOf(user) = "pro" /\ TIER_LIMITS[tierOf(user)].monthlyMessages # NULL
       THEN user.monthly_message_count < TIER_LIMITS[tierOf(user)].monthlyMessages
       ELSE TRUE

HelperNames ==
  {"hasActiveSubscription", "hasProAccess", "hasMaxAccess", "hasUltraAccess",
   "canAccessProModels", "canAccessPremiumModels", "hasMessageQuota"}

\* No helper has been called.
NoAnswers == [h \in HelperNames |-> "undefined"]

\* A JavaScript boolean as a MaybeBool.
boolOf(b) == IF b THEN "true" ELSE "false"

\* What helper h returns on the row user.
helperAnswer(h, user) ==
  CASE h = "hasActiveSubscription" -> hasActiveSubscription(user)
    [] h = "hasProAccess" -> hasProAccess(user)
    [] h = "hasMaxAccess" -> hasMaxAccess(user)
    [] h = "hasUltraAccess" -> hasUltraAccess(user)
    [] h = "canAccessProModels" -> canAccessProModels(user)
    [] h = "canAccessPremiumModels" -> canAccessPremiumModels(user)
    [] h = "hasMessageQuota" -> hasMessageQuota(user)

\* A caller reads the row of u and passes it to helper h.
CallHelper(u, h) ==
  /\ u \in DOMAIN users
  /\ answers' = [answers EXCEPT ![h] = boolOf(helperAnswer(h, users[u]))]
  /\ UNCHANGED <<now, users, session, committed, checked, pairs, procVars,
                 autumnEnabled, autumnReply, access, delivered, polar>>

(***************************************************************************)
(* The Polar access helpers: checkMessageAccess, getCustomerTier,          *)
(* canAccessProModels and canAccessPremiumModels, with                     *)
(* getOrCreatePolarCustomer and getActiveSubscriptions.                    *)
(***************************************************************************)
\* What the customer lookup comes to: an existing customer is listed; none
\* is listed and one is created; the list call throws; the create call
\* throws.
CustomerReplies == {"listed", "created", "list_throws", "create_throws"}

\* What the subscriptions list comes to: it throws, or it resolves to the
\* product ids of the active subscriptions, at most two.
SubscriptionReplies ==
  {[kind |-> "throws", items |-> <<>>]}
    \cup {[kind |-> "items", items |-> <<>>]}
    \cup {[kind |-> "items", items |-> <<a>>] : a \in ProductIds}
    \cup {[kind |-> "items", items |-> <<a, b>>] : a, b \in ProductIds}

\* The subscriptions list was not asked.
NotAsked == [kind |-> "not_asked", items |-> <<>>]

\* getOrCreatePolarCustomer: a customer, or null from its catch.
getOrCreatePolarCustomer(c) ==
  IF c \in {"listed", "created"} THEN "customer" ELSE "null"

\* getActiveSubscriptions: the items, or [] from its catch.
getActiveSubscriptions(r) == IF r.kind = "items" THEN r.items ELSE <<>>

\* tierMap[productId] || 'free'
tierMapOrFree(productId) ==
  IF productId \in {"pro", "max", "ultra"} THEN productId ELSE "free"

PolarAccess(allowed, tier, subscription, balance, unlimited) ==
  [allowed |-> allowed, tier |-> tier, subscription |-> subscription,
   balance |-> balance, unlimited |-> unlimited]

\* The mutant of checkMessageAccess_polar: no customer, no access.
checkMessageAccess_polarClosed(c, r) ==
  IF getOrCreatePolarCustomer(c) = "null"
  THEN PolarAccess(FALSE, "free", "null", NULL, FALSE)
  ELSE PolarAccess(TRUE, "free", "null", NULL, FALSE)

\* part_000 lines 69-155, on the customer reply c and the subscriptions
\* reply r.  No statement of the try block throws on these replies.
checkMessageAccess_polar(c, r) ==
  IF getOrCreatePolarCustomer(c) = "null"
  THEN PolarAccess(TRUE, "free", "null", NULL, FALSE)
  ELSE IF Len(getActiveSubscriptions(r)) = 0
       THEN PolarAccess(TRUE, "free", "null", NULL, FALSE)
       ELSE LET productId == getActiveSubscriptions(r)[1]
                tier == tierMapOrFree(productId)
            IN IF tier = "pro"
               THEN PolarAccess(TRUE, tier, productId, 100, FALSE)
               ELSE IF tier \in {"max", "ultra"}
                    THEN PolarAccess(TRUE, tier, productId, NULL, TRUE)
                    ELSE PolarAccess(TRUE, "free", productId, NULL, FALSE)

\* Lines 162-165.
getCustomerTier(c, r) == checkMessageAccess_polar(c, r).tier

\* Lines 172-175 and 182-185.
canAccessProModels_polar(c, r) == getCustomerTier(c, r) \in {"pro", "max", "ultra"}
canAccessPremiumModels_polar(c, r) == getCustomerTier(c, r) = "ultra"

PolarCalls ==
  {"checkMessageAccess", "getCustomerTier", "canAccessProModels",
   "canAccessPremiumModels"}

\* What the caller of helper fn gets, as text.
polarAnswer(fn, c, r) ==
  CASE fn = "checkMessageAccess" -> boolOf(checkMessageAccess_polar(c, r).allowed)
    [] fn = "getCustomerTier" -> getCustomerTier(c, r)
    [] fn = "canAccessProModels" -> boolOf(canAccessProModels_polar(c, r))
    [] fn = "canAccessPremiumModels" -> boolOf(canAccessPremiumModels_polar(c, r))

\* No Polar helper has been called.
NoPolarCall ==
  [fn |-> "none", customer |-> "listed", subscriptions |-> NotAsked,
   result |-> PolarAccess(TRUE, "free", "null", NULL, FALSE),
   answer |-> "undefined"]

\* A call of one of the helpers: the subscriptions are listed only for a
\* customer.
CallPolar(fn) ==
  /\ \E c \in CustomerReplies, r \in SubscriptionReplies :
       polar' = [fn |-> fn,
                 customer |-> c,
                 subscriptions |->
                   IF getOrCreatePolarCustomer(c) = "null" THEN NotAsked ELSE r,
                 result |-> checkMessageAccess_polar(c, r),
                 answer |-> polarAnswer(fn, c, r)]
  /\ UNCHANGED <<now, users, session, committed, checked, pairs, procVars,
                 autumnEnabled, autumnReply, access, answers, delivered>>

(***************************************************************************)
(* Time passes.  The return of a handler is one instant: the clock and the *)
(* webhooks move while no handler is at its return.                        *)
(***************************************************************************)
NoneReturning == \A p \in Procs : pc[p] # "done"

Tick(instants) ==
  /\ NoneReturning
  /\ \E t \in instants : t > now /\ now' = t
  /\ checked' = [u \in DOMAIN checked |-> checked[u] /\ SameUTCDay(now, now')]
  /\ pairs' = [u \in DOMAIN pairs |-> IF SameUTCDay(now, now') THEN pairs[u] ELSE 0]
  /\ UNCHANGED <<users, session, accessVars, committed, procVars>>

\* The history of check+commit pairs, as the caller of p sees it on p's return.
checkedAfter(p) ==
  [u \in DOMAIN checked |->
     IF u # uid[p] THEN checked[u]
     ELSE /\ op[p] = "checkUsage"
          /\ outcome[p] = "allowed"
          /\ SameUTCDay(tnow[p], now)]

pairsAfter(p) ==
  [u \in DOMAIN pairs |->
     IF u # uid[p] THEN pairs[u]
     ELSE IF op[p] = "checkUsage"
          THEN IF outcome[p] = "allowed" /\ SameUTCDay(tnow[p], now)
               THEN pairs[u] ELSE 0
          ELSE IF op[p] = "incrementUsage" /\ outcome[p] = "ok" /\ checked[u]
               THEN pairs[u] + 1 ELSE 0]

\* The caller has its result; the handler's frame is gone.
Return(p) ==
  /\ pc[p] = "done"
  /\ pc' = [pc EXCEPT ![p] = "idle"]
  /\ op' = [op EXCEPT ![p] = "none"]
  /\ uid' = [uid EXCEPT ![p] = "nobody"]
  /\ snap' = [snap EXCEPT ![p] = NoData]
  /\ tnow' = [tnow EXCEPT ![p] = NULL]
  /\ wrote' = [wrote EXCEPT ![p] = {}]
  /\ outcome' = [outcome EXCEPT ![p] = "pending"]
  /\ checked' = checkedAfter(p)
  /\ pairs' = pairsAfter(p)
  /\ UNCHANGED <<now, users, session, accessVars, committed>>

(***************************************************************************)
(* Specifications                                                          *)
(***************************************************************************)
InitAccessIdle ==
  /\ autumnEnabled = FALSE
  /\ autumnReply = NoReply
  /\ access = NoAccess
  /\ answers = NoAnswers
  /\ delivered = NoEvent
  /\ polar = NoPolarCall

InitProcs ==
  /\ pc = [p \in Procs |-> "idle"]
  /\ op = [p \in Procs |-> "none"]
  /\ uid = [p \in Procs |-> "nobody"]
  /\ snap = [p \in Procs |-> NoData]
  /\ tnow = [p \in Procs |-> NULL]
  /\ wrote = [p \in Procs |-> {}]
  /\ outcome = [p \in Procs |-> "pending"]

Sessions == [modelId : ModelIds, isAuthenticated : BOOLEAN]

\* The entitlements the webhook handler can have left in a row.
Entitlements ==
  {e \in [tier : Tiers, status : Statuses, periodEnd : PeriodEnds] :
     \/ e.status = "active"
     \/ e.tier = "free" /\ e.status = NoStatus /\ e.periodEnd = NULL
     \/ e.tier \in {"pro", "max"} /\ e.status = "canceled" /\ e.periodEnd = NULL}

Entitled(rec, e) ==
  Update(rec, [subscription_tier |-> e.tier, subscription_status |-> e.status,
               subscription_period_end |-> e.periodEnd])

\* A record is created with zeroed counters and tier free; the subscription
\* sync may have written its entitlement since.
Init ==
  /\ now = 0
  /\ \E anon \in BOOLEAN, e \in Entitlements :
       users = [u \in {"u1"} |-> Entitled(NewUser(anon), e)]
  /\ committed = [u \in {"u1"} |-> 0]
  /\ checked = [u \in {"u1"} |-> FALSE]
  /\ pairs = [u \in {"u1"} |-> 0]
  /\ session \in Sessions
  /\ InitProcs
  /\ InitAccessIdle

\* A request for one of the user ids ids begins its check or its commit.
StartFor(p, ids) ==
  \/ \E u \in ids :
       CheckUsageByModel(p, u, session.modelId, session.isAuthenticated)
  \/ \E u \in ids :
       IncrementUsageByModel(p, u, session.modelId, session.isAuthenticated)

Start(p) == StartFor(p, UserIds)

Steps(p) ==
  \/ CheckUsage_Select(p)
  \/ CheckUsage_Eval(p)
  \/ CheckUsage_MonthlyReset(p)
  \/ CheckUsage_AfterMonthly(p)
  \/ CheckUsage_DailyReset(p)
  \/ IncrementUsage_Select(p)
  \/ IncrementUsage_Update(p)
  \/ CheckProUsage_Select(p)
  \/ CheckProUsage_Eval(p)
  \/ CheckProUsage_Reset(p)
  \/ IncrementProUsage_Select(p)
  \/ IncrementProUsage_Update(p)
  \/ Return(p)

Webhook(products, statuses, periodEnds) ==
  /\ NoneReturning
  /\ \/ \E u \in DOMAIN users, pr \in products, pe \in periodEnds :
          OnSubscriptionCreated(u, pr, pe)
     \/ \E u \in DOMAIN users, pr \in products, pe \in periodEnds :
          OnSubscriptionActive(u, pr, pe)
     \/ \E u \in DOMAIN users, pr \in products, s \in statuses, pe \in periodEnds :
          OnSubscriptionUpdated(u, pr, s, pe)
     \/ \E u \in DOMAIN users, pe \in periodEnds : OnSubscriptionCanceled(u, pe)
     \/ \E u \in DOMAIN users : OnSubscriptionRevoked(u)
  /\ UNCHANGED accessVars

\* The same deliveries, each recorded in delivered.
WebhookDelivered(products, statuses, periodEnds) ==
  /\ NoneReturning
  /\ \/ \E u \in DOMAIN users, pr \in products, pe \in periodEnds :
          /\ OnSubscriptionCreated(u, pr, pe)
          /\ delivered' = Event(1 - delivered.n, "created", u, pr, "active", pe)
     \/ \E u \in DOMAIN users, pr \in products, pe \in periodEnds :
          /\ OnSubscriptionActive(u, pr, pe)
          /\ delivered' = Event(1 - delivered.n, "active", u, pr, "active", pe)
     \/ \E u \in DOMAIN users, pr \in products, s \in statuses, pe \in periodEnds :
          /\ OnSubscriptionUpdated(u, pr, s, pe)
          /\ delivered' = Event(1 - delivered.n, "updated", u, pr, s, pe)
     \/ \E u \in DOMAIN users, pe \in periodEnds :
          /\ OnSubscriptionCanceled(u, pe)
          /\ delivered' = Event(1 - delivered.n, "canceled", u, "other", "canceled", pe)
     \/ \E u \in DOMAIN users :
          /\ OnSubscriptionRevoked(u)
          /\ delivered' = Event(1 - delivered.n, "revoked", u, "other", "canceled", NULL)
  /\ UNCHANGED <<autumnEnabled, autumnReply, access, answers, polar>>

\* One request at a time.
Next == Tick(ClockValues) \/ Start("p1") \/ Steps("p1")
Spec == Init /\ [][Next]_vars

\* One request at a time, and the subscription sync.
InitSync ==
  /\ now = 0
  /\ users = [u \in {"u1"} |-> NewUser(FALSE)]
  /\ committed = [u \in {"u1"} |-> 0]
  /\ checked = [u \in {"u1"} |-> FALSE]
  /\ pairs = [u \in {"u1"} |-> 0]
  /\ session = [modelId |-> "free-model", isAuthenticated |-> TRUE]
  /\ InitProcs
  /\ InitAccessIdle

StandardSteps(p) ==
  \/ CheckUsage_Select(p)
  \/ CheckUsage_Eval(p)
  \/ CheckUsage_MonthlyReset(p)
  \/ CheckUsage_AfterMonthly(p)
  \/ CheckUsage_DailyReset(p)
  \/ IncrementUsage_Select(p)
  \/ IncrementUsage_Update(p)
  \/ Return(p)

NextSync ==
  \/ Tick({TicksPerDay})
  \/ Webhook({"pro", "other"}, {"active", "canceled", "incomplete"}, {NULL, TicksPerDay})
  \/ Start("p1")
  \/ StandardSteps("p1")
SpecSync == InitSync /\ [][NextSync]_vars

\* Two requests of one user in flight.
ConcEntitlements ==
  {[tier |-> "free", status |-> NoStatus, periodEnd |-> NULL],
   [tier |-> "pro", status |-> "active", periodEnd |-> TicksPerDay]}

InitConc ==
  /\ now = 0
  /\ \E e \in ConcEntitlements :
       users = [u \in {"u1"} |-> Entitled(NewUser(FALSE), e)]
  /\ committed = [u \in {"u1"} |-> 0]
  /\ checked = [u \in {"u1"} |-> FALSE]
  /\ pairs = [u \in {"u1"} |-> 0]
  /\ session = [modelId |-> "free-model", isAuthenticated |-> TRUE]
  /\ InitProcs
  /\ InitAccessIdle

NextConc == Tick({TicksPerDay}) \/ \E p \in Procs : Start(p) \/ StandardSteps(p)
SpecConc == InitConc /\ [][NextConc]_vars

\* Two users, a free one and an active pro subscriber, each with a request
\* in flight: the requests of the two interleave in every order.
TwoUsers == {"u1", "u2"}

InitTwo ==
  /\ now = 0
  /\ users =
       [u \in TwoUsers |->
          IF u = "u1" THEN NewUser(FALSE)
          ELSE Entitled(NewUser(FALSE),
                        [tier |-> "pro", status |-> "active",
                         periodEnd |-> TicksPerDay])]
  /\ committed = [u \in TwoUsers |-> 0]
  /\ checked = [u \in TwoUsers |-> FALSE]
  /\ pairs = [u \in TwoUsers |-> 0]
  /\ session = [modelId |-> "free-model", isAuthenticated |-> TRUE]
  /\ InitProcs
  /\ InitAccessIdle

NextTwo ==
  \/ Tick({TicksPerDay})
  \/ StartFor("p1", {"u1"}) \/ StandardSteps("p1")
  \/ StartFor("p2", {"u2"}) \/ StandardSteps("p2")
SpecTwo == InitTwo /\ [][NextTwo]_vars

\* One request at a time for a row whose subscription_tier is SQL NULL or a
\* text that is no tier: the CHECK constraint of the migration keeps such a
\* text out of a column the migration created, not out of a column that was
\* there before it (ADD COLUMN IF NOT EXISTS).
StoredTiers == {NoStatus, "enterprise"}

InitTier ==
  /\ now = 0
  /\ \E anon \in BOOLEAN, t \in StoredTiers :
       users = [u \in {"u1"} |-> Update(NewUser(anon), [subscription_tier |-> t])]
  /\ committed = [u \in {"u1"} |-> 0]
  /\ checked = [u \in {"u1"} |-> FALSE]
  /\ pairs = [u \in {"u1"} |-> 0]
  /\ session = [modelId |-> "free-model", isAuthenticated |-> TRUE]
  /\ InitProcs
  /\ InitAccessIdle

NextTier ==
  \/ Tick(ClockValues)
  \/ StartFor("p1", {"u1"})
  \/ CheckUsage_Select("p1")
  \/ CheckUsage_Eval("p1")
  \/ CheckUsage_DailyReset("p1")
  \/ IncrementUsage_Select("p1")
  \/ IncrementUsage_Update("p1")
  \/ Return("p1")
SpecTier == InitTier /\ [][NextTier]_vars

\* The access helpers alone, with and without the Autumn secret key.
InitAccess ==
  /\ now = 0
  /\ users = [u \in {"u1"} |-> NewUser(FALSE)]
  /\ committed = [u \in {"u1"} |-> 0]
  /\ checked = [u \in {"u1"} |-> FALSE]
  /\ pairs = [u \in {"u1"} |-> 0]
  /\ session = [modelId |-> "free-model", isAuthenticated |-> TRUE]
  /\ InitProcs
  /\ autumnEnabled \in BOOLEAN
  /\ autumnReply = NoReply
  /\ access = NoAccess
  /\ answers = NoAnswers
  /\ delivered = NoEvent
  /\ polar = NoPolarCall

NextAccess == CheckMessageAccess_AutumnClient \/ CheckMessageAccess_CheckAccess
SpecAccess == InitAccess /\ [][NextAccess]_vars

\* The access helpers on a stored row: the tier and status the subscription
\* sync can have written (onSubscriptionUpdated writes any product's tier
\* with any mapped status), or a tier of NULL, and any monthly count.
HelperTiers == Tiers \cup {NoStatus}

InitHelpers ==
  /\ now = 0
  /\ \E t \in HelperTiers, st \in Statuses, c \in 0..MaxCount :
       users = [u \in {"u1"} |->
                  Update(NewUser(FALSE),
                         [subscription_tier |-> t, subscription_status |-> st,
                          monthly_message_count |-> c])]
  /\ committed = [u \in {"u1"} |-> 0]
  /\ checked = [u \in {"u1"} |-> FALSE]
  /\ pairs = [u \in {"u1"} |-> 0]
  /\ session = [modelId |-> "free-model", isAuthenticated |-> TRUE]
  /\ InitProcs
  /\ InitAccessIdle

NextHelpers == \E h \in HelperNames : CallHelper("u1", h)
SpecHelpers == InitHelpers /\ [][NextHelpers]_vars

\* The subscription sync, each event recorded, between the commits
\* of one user's free-model chat.
NextHook ==
  \/ WebhookDelivered({"pro", "other"}, {"active", "canceled", "incomplete"}, {NULL, TicksPerDay})
  \/ IncrementUsageByModel("p1", "u1", session.modelId, session.isAuthenticated)
  \/ IncrementUsage_Select("p1")
  \/ IncrementUsage_Update("p1")
  \/ Return("p1")
SpecHook == InitSync /\ [][NextHook]_vars

\* The Polar access helpers alone.
NextPolar == \E fn \in PolarCalls : CallPolar(fn)
SpecPolar == InitSync /\ [][NextPolar]_vars

(***************************************************************************)
(* Properties                                                              *)
(***************************************************************************)
\* A check that has returned or thrown without a store failure.
Decided(p, f) ==
  pc[p] = "done" /\ op[p] = f /\ outcome[p] \notin StoreErrors

\* The counts a check compares with the limits: 0 where it wrote the reset.
PostMonthly(p) ==
  IF "monthly" \in wrote[p] THEN 0 ELSE snap[p].monthly_message_count
PostDaily(p) ==
  IF "daily" \in wrote[p] THEN 0 ELSE snap[p].daily_message_count
PostPro(p) ==
  IF "pro" \in wrote[p] THEN 0 ELSE snap[p].daily_pro_message_count

\* The limits that apply to the row a check read.
MonthlyLimitFor(d) ==
  IF d.subscription_tier = "pro" /\ d.subscription_status = "active"
  THEN TIER_LIMITS.pro.monthlyMessages ELSE NULL
DailyLimitFor(d) ==
  IF d.anonymous THEN AnonDailyCap
  ELSE TIER_LIMITS[d.subscription_tier].dailyMessages

\* C1: k concurrent incrementUsage calls on one user leave the stored
\* counter at the initial value plus k: the overall message_count, which
\* nothing resets, is never lower than the number of commits that returned
\* successfully.
C1_NoLostUpdate ==
  \A u \in DOMAIN users : users[u].message_count >= committed[u]

\* C2: for every tier and every counter family a check denies with a
\* usage-limit error exactly when the relevant limit is finite and the
\* post-reset count is >= the limit, and allows otherwise.
C2_DeniesExactlyAtLimit ==
  \A p \in Procs :
    /\ Decided(p, "checkUsage") =>
         LET monthlyDeny == /\ MonthlyLimitFor(snap[p]) # NULL
                            /\ PostMonthly(p) >= MonthlyLimitFor(snap[p])
             dailyDeny == /\ DailyLimitFor(snap[p]) # Infinity
                          /\ PostDaily(p) >= DailyLimitFor(snap[p])
         IN /\ outcome[p] \in {"limit_monthly", "limit_daily"}
                 <=> (monthlyDeny \/ dailyDeny)
            /\ outcome[p] = "allowed" <=> ~(monthlyDeny \/ dailyDeny)
    /\ Decided(p, "checkProUsage") =>
         /\ outcome[p] = "limit_pro" <=> PostPro(p) >= ProModelDailyCap
         /\ outcome[p] = "allowed" <=> PostPro(p) < ProModelDailyCap

\* C2's case: a check that found the count equal to a finite daily limit
\* and denied.
C2_Witness ==
  \E p \in Procs :
    /\ Decided(p, "checkUsage")
    /\ outcome[p] = "limit_daily"
    /\ PostDaily(p) = DailyLimitFor(snap[p])

\* C3 as stated: a check resets the daily (pro-model daily) counter if and
\* only if the stored reset timestamp is absent or on another UTC calendar
\* day than now.
C3_ResetIffNewDay ==
  \A p \in Procs :
    /\ Decided(p, "checkUsage") =>
         ("daily" \in wrote[p]
            <=> (snap[p].daily_reset = NULL
                   \/ ~SameUTCDay(snap[p].daily_reset, tnow[p])))
    /\ Decided(p, "checkProUsage") =>
         ("pro" \in wrote[p]
            <=> (snap[p].daily_pro_reset = NULL
                   \/ ~SameUTCDay(snap[p].daily_pro_reset, tnow[p])))

\* C3 amended: a check that reaches the daily step (no store failure and,
\* for checkUsage, no monthly-limit denial first) resets the counter if and
\* only if the reset timestamp it read is absent or on another UTC calendar
\* day than now; a check that read a timestamp of the same UTC day writes
\* no reset and leaves the stored count as it read it.
C3_ResetIffNewDayAtDailyStep ==
  \A p \in Procs :
    /\ (Decided(p, "checkUsage") /\ outcome[p] # "limit_monthly") =>
         /\ "daily" \in wrote[p]
              <=> (snap[p].daily_reset = NULL
                     \/ ~SameUTCDay(snap[p].daily_reset, tnow[p]))
         /\ (snap[p].daily_reset # NULL
               /\ SameUTCDay(snap[p].daily_reset, tnow[p])) =>
              /\ users[uid[p]].daily_message_count = snap[p].daily_message_count
              /\ users[uid[p]].daily_reset = snap[p].daily_reset
    /\ Decided(p, "checkProUsage") =>
         /\ "pro" \in wrote[p]
              <=> (snap[p].daily_pro_reset = NULL
                     \/ ~SameUTCDay(snap[p].daily_pro_reset, tnow[p]))
         /\ (snap[p].daily_pro_reset # NULL
               /\ SameUTCDay(snap[p].daily_pro_reset, tnow[p])) =>
              /\ users[uid[p]].daily_pro_message_count
                   = snap[p].daily_pro_message_count
              /\ users[uid[p]].daily_pro_reset = snap[p].daily_pro_reset

\* C3's case: a check that found a reset timestamp of an earlier instant of
\* the same UTC day, with a count to keep.
C3_Witness ==
  \E p \in Procs :
    /\ Decided(p, "checkUsage")
    /\ snap[p].daily_reset # NULL
    /\ snap[p].daily_reset < tnow[p]
    /\ SameUTCDay(snap[p].daily_reset, tnow[p])
    /\ snap[p].daily_message_count > 0
    /\ "daily" \notin wrote[p]

\* The tier a row is enforced as: a paid tier counts only while active.
ResolvedTier(rec) ==
  IF rec.subscription_tier # "free" /\ rec.subscription_status # "active"
  THEN "free" ELSE rec.subscription_tier

\* C4: checkUsageByModel for a pro model never allows a user whose resolved
\* tier has proModels = false, whatever the counters.
C4_ProModelNeedsCapability ==
  \A p \in Procs :
    (pc[p] = "done" /\ op[p] = "checkProUsage" /\ uid[p] \in DOMAIN users
       /\ ~TIER_LIMITS[ResolvedTier(users[uid[p]])].proModels)
      => outcome[p] # "allowed"

\* A step in which a check writes the monthly reset because the billing
\* period has ended.
MonthlyResetStep(u) ==
  \E p \in Procs :
    /\ uid[p] = u
    /\ "monthly" \notin wrote[p]
    /\ "monthly" \in wrote'[p]
    /\ snap[p].subscription_period_end # NULL
    /\ tnow[p] >= snap[p].subscription_period_end

\* C5: for an active pro subscriber the stored monthlyMessageCount never
\* decreases in any step, except a step that resets it because
\* now >= billingPeriodEnd.
C5_MonthlyNeverDecreases ==
  [][\A u \in DOMAIN users :
       (/\ isProActive(users[u])
        /\ isProActive(users'[u])
        /\ users'[u].monthly_message_count < users[u].monthly_message_count)
         => MonthlyResetStep(u)]_vars

\* C6: for an active pro subscriber at the monthly limit with no
\* billing-period reset due, check(standard) denies with the monthly
\* usage-limit error whatever the daily window, and it has written no reset:
\* the stored daily count and daily reset timestamp are as it read them.
C6_MonthlyBeforeDaily ==
  \A p \in Procs :
    (/\ Decided(p, "checkUsage")
     /\ MonthlyLimitFor(snap[p]) # NULL
     /\ snap[p].monthly_message_count >= MonthlyLimitFor(snap[p])
     /\ ~(snap[p].subscription_period_end # NULL
            /\ tnow[p] >= snap[p].subscription_period_end))
      => /\ outcome[p] = "limit_monthly"
         /\ wrote[p] = {}
         /\ users[uid[p]].daily_message_count = snap[p].daily_message_count
         /\ users[uid[p]].daily_reset = snap[p].daily_reset

\* C6's case: the monthly denial of a subscriber whose daily reset was due
\* and whose daily count had stayed below the monthly count.
C6_Witness ==
  \E p \in Procs :
    /\ Decided(p, "checkUsage")
    /\ outcome[p] = "limit_monthly"
    /\ snap[p].daily_reset # NULL
    /\ ~SameUTCDay(snap[p].daily_reset, tnow[p])
    /\ snap[p].daily_message_count < snap[p].monthly_message_count

C8_CheckCommitCheck ==
  \A p \in Procs :
    /\ (Decided(p, "checkUsage") /\ uid[p] \in DOMAIN users
          /\ DailyLimitFor(snap[p]) # Infinity
          /\ pairs[uid[p]] >= DailyLimitFor(snap[p]))
         => outcome[p] \in {"limit_daily", "limit_monthly"}
    /\ (pc[p] = "done" /\ op[p] = "incrementUsage" /\ outcome[p] = "ok") =>
         /\ users[uid[p]].daily_message_count = snap[p].daily_message_count + 1
         /\ checked[uid[p]] =>
              users[uid[p]].daily_message_count >= pairs[uid[p]] + 1

\* C8's case: the check after exactly L pairs, the stored count being L.
C8_Witness ==
  \E p \in Procs :
    /\ Decided(p, "checkUsage")
    /\ uid[p] \in DOMAIN users
    /\ DailyLimitFor(snap[p]) # Infinity
    /\ pairs[uid[p]] = DailyLimitFor(snap[p])
    /\ snap[p].daily_message_count = DailyLimitFor(snap[p])
    /\ outcome[p] = "limit_daily"

\* C9: a reset never discards an increment committed in the new window: no
\* check writes its daily reset over a counter that has already been reset
\* for the same UTC day and has counted commits since.
C9_ResetKeepsCommits ==
  [][\A p \in Procs :
       ("daily" \notin wrote[p] /\ "daily" \in wrote'[p]) =>
         ~(/\ users[uid[p]].daily_reset # NULL
           /\ SameUTCDay(users[uid[p]].daily_reset, tnow[p])
           /\ users[uid[p]].daily_message_count > 0)]_vars

\* C10: of the concurrent checks of one user that cross the same day
\* boundary at most one writes the reset for that day.
C10_OneResetPerDay ==
  \A p, q \in Procs :
    (/\ p # q
     /\ uid[p] = uid[q]
     /\ "daily" \in wrote[p]
     /\ "daily" \in wrote[q])
      => ~SameUTCDay(tnow[p], tnow[q])

\* C11: a user whose stored tier is paid (pro, max, ultra) but whose
\* subscription is not active is enforced with the free tier's limits:
\* checkUsage denies when the post-reset daily count is >= the free daily
\* limit.
C11_InactivePaidIsFree ==
  \A p \in Procs :
    (/\ Decided(p, "checkUsage")
     /\ ~snap[p].anonymous
     /\ snap[p].subscription_tier \in {"pro", "max", "ultra"}
     /\ snap[p].subscription_status # "active"
     /\ PostDaily(p) >= TIER_LIMITS.free.dailyMessages)
      => outcome[p] = "limit_daily"

\* The billing-period rule on the row a check read, at the instant it read
\* the clock.
PeriodEnded(p) ==
  /\ snap[p].subscription_period_end # NULL
  /\ tnow[p] >= snap[p].subscription_period_end

\* The check has gone to the monthly reset write.
MonthlyResetAttempted(p) ==
  \/ pc[p] = "cu_monthlyReset"
  \/ "monthly" \in wrote[p]
  \/ outcome[p] = "error_reset_monthly"

CommitOk(p) ==
  pc[p] = "iu_update" /\ pc'[p] = "done" /\ outcome'[p] = "ok"
ProCommitOk(p) ==
  pc[p] = "ipu_update" /\ pc'[p] = "done" /\ outcome'[p] = "ok"

\* C13: with one request at a time, N commits raise the stored counter by
\* exactly N: every successful commit adds exactly 1 to its counters
\* (message_count and daily_message_count, or daily_pro_message_count), a
\* repeated commit counts again, and message_count, which nothing resets,
\* equals the number of commits that returned successfully.
C13_SequentialCommitsExact ==
  /\ [](\A u \in DOMAIN users : users[u].message_count = committed[u])
  /\ [][\A p \in Procs :
          /\ CommitOk(p) =>
               /\ users'[uid[p]].message_count
                    = users[uid[p]].message_count + 1
               /\ users'[uid[p]].daily_message_count
                    = users[uid[p]].daily_message_count + 1
          /\ ProCommitOk(p) =>
               users'[uid[p]].daily_pro_message_count
                 = users[uid[p]].daily_pro_message_count + 1]_vars

\* C13's case: the second (or a later) commit of a user has just succeeded.
C13_Witness ==
  \E p \in Procs :
    /\ pc[p] = "done" /\ op[p] = "incrementUsage" /\ outcome[p] = "ok"
    /\ committed[uid[p]] >= 2
    /\ users[uid[p]].message_count = committed[uid[p]]

\* C14: a standard commit raises daily_message_count by 1 for every tier and
\* status, and changes monthly_message_count if and only if the tier is pro
\* and the subscription is active, then by exactly +1.
C14_MonthlyOnlyForActivePro ==
  [][\A p \in Procs :
       CommitOk(p) =>
         LET before == users[uid[p]]
             after == users'[uid[p]]
             proActive == /\ before.subscription_tier = "pro"
                          /\ before.subscription_status = "active"
         IN /\ after.daily_message_count = before.daily_message_count + 1
            /\ (after.monthly_message_count # before.monthly_message_count)
                 <=> proActive
            /\ proActive =>
                 after.monthly_message_count = before.monthly_message_count + 1]_vars

\* C14's case: the commit of an active pro subscriber has raised the monthly
\* count it read by 1.
C14_Witness ==
  \E p \in Procs :
    /\ pc[p] = "done" /\ op[p] = "incrementUsage" /\ outcome[p] = "ok"
    /\ snap[p].subscription_tier = "pro"
    /\ snap[p].subscription_status = "active"
    /\ users[uid[p]].monthly_message_count = snap[p].monthly_message_count + 1
    /\ users[uid[p]].daily_message_count = snap[p].daily_message_count + 1

\* The columns of the standard and of the pro-model counter family.
StandardFamily ==
  {"daily_message_count", "daily_reset", "monthly_message_count", "monthly_reset"}
ProFamily == {"daily_pro_message_count", "daily_pro_reset"}

\* C15: a commit touches one counter family: a pro-model commit raises
\* daily_pro_message_count by 1 and leaves the daily and monthly counts and
\* their reset timestamps unchanged; a standard commit leaves
\* daily_pro_message_count and daily_pro_reset unchanged.
C15_OneFamilyPerCommit ==
  [][\A p \in Procs :
       /\ ProCommitOk(p) =>
            /\ users'[uid[p]].daily_pro_message_count
                 = users[uid[p]].daily_pro_message_count + 1
            /\ \A c \in StandardFamily : users'[uid[p]][c] = users[uid[p]][c]
       /\ CommitOk(p) =>
            \A c \in ProFamily : users'[uid[p]][c] = users[uid[p]][c]]_vars

\* C15's case: a pro-model commit has raised the pro-model count of a row
\* whose pro-model window is open, the standard family being as created.
C15_Witness ==
  \E p \in Procs :
    /\ pc[p] = "done" /\ op[p] = "incrementProUsage" /\ outcome[p] = "ok"
    /\ users[uid[p]].daily_pro_message_count = snap[p].daily_pro_message_count + 1
    /\ users[uid[p]].daily_pro_reset # NULL
    /\ users[uid[p]].daily_message_count = 0
    /\ users[uid[p]].daily_reset = NULL

\* p leaves a select without a row, or a reset write without having written.
ReadFailed(p) ==
  /\ pc[p] \in {"cu_select", "cpu_select"}
  /\ pc'[p] # pc[p]
  /\ snap'[p] = NoData
ResetWriteFailed(p) ==
  /\ pc[p] \in {"cu_monthlyReset", "cu_dailyReset", "cpu_reset"}
  /\ pc'[p] # pc[p]
  /\ wrote'[p] = wrote[p]

\* C16: a store failure during a check (a failed read, a failed reset
\* write) ends the check at once with a store error, which is neither an
\* allowed decision nor a usage-limit denial.
C16_StoreFailureIsError ==
  /\ [](\A p \in Procs :
          (pc[p] = "done" /\ outcome[p] \in StoreErrors) =>
            /\ outcome[p] \notin UsageLimitErrors
            /\ outcome[p] # "allowed")
  /\ [][\A p \in Procs :
          (ReadFailed(p) \/ ResetWriteFailed(p)) =>
            /\ pc'[p] = "done"
            /\ outcome'[p] \in StoreErrors
            /\ users' = users]_vars

\* C16's case: the daily reset write of a check failed, for a user who
\* would have been allowed after the reset.
C16_Witness ==
  \E p \in Procs :
    /\ pc[p] = "done" /\ op[p] = "checkUsage"
    /\ outcome[p] = "error_reset_daily"
    /\ "daily" \notin wrote[p]
    /\ users[uid[p]].daily_reset = snap[p].daily_reset

\* C17 as stated: when the user record does not exist, check and commit end
\* with a lookup error, not with an allowed decision, a usage-limit denial
\* or a normal return, and have written nothing.
C17_MissingRecordIsLookupError ==
  \A p \in Procs :
    (pc[p] = "done" /\ uid[p] \notin DOMAIN users) =>
      /\ outcome[p] \in {"error_fetch", "error_notfound"}
      /\ wrote[p] = {}

\* C17 amended: when the user record does not exist, every call that goes to
\* the store (checkUsage, checkProUsage, incrementUsage, incrementProUsage)
\* ends with a lookup error and never with an allowed decision, a
\* usage-limit denial or a normal return; a pro-model request of an
\* unauthenticated caller does not go to the store: the check throws the
\* log-in usage-limit error and the commit returns normally.  None of them
\* writes to the store.
C17_MissingRecordAtTheStore ==
  /\ [](\A p \in Procs :
          (pc[p] = "done" /\ uid[p] \notin DOMAIN users) =>
            /\ wrote[p] = {}
            /\ op[p] \in {"checkUsage", "checkProUsage", "incrementUsage",
                          "incrementProUsage"}
                 => outcome[p] \in {"error_fetch", "error_notfound"}
            /\ op[p] = "checkUsageByModel" => outcome[p] = "limit_login"
            /\ op[p] = "incrementUsageByModel" => outcome[p] = "skipped")
  /\ [][\A p \in Procs :
          (pc'[p] # pc[p] /\ uid'[p] \notin DOMAIN users) => users' = users]_vars

\* C17's case: a pro-model check for a user id without a record has ended
\* with the not-found error.
C17_Witness ==
  \E p \in Procs :
    /\ pc[p] = "done" /\ op[p] = "checkProUsage"
    /\ uid[p] \notin DOMAIN users
    /\ outcome[p] = "error_notfound"

\* The counters of a row, and each with its reset timestamp.
Counters ==
  {"message_count", "daily_message_count", "monthly_message_count",
   "daily_pro_message_count"}
ResetPairs ==
  {<<"daily_message_count", "daily_reset">>,
   <<"monthly_message_count", "monthly_reset">>,
   <<"daily_pro_message_count", "daily_pro_reset">>}

\* A step of checkUsage or checkProUsage.
CheckStep(p) ==
  op[p] \in {"checkUsage", "checkProUsage"} /\ pc'[p] # pc[p]

\* C18: a check never raises a counter: a step of checkUsage or
\* checkProUsage leaves every counter at or below its value, and where it
\* writes, it writes one counter to 0 together with that counter's reset
\* timestamp (set to the check's now) and nothing else.
C18_CheckNeverIncrements ==
  [][\A p \in Procs :
       CheckStep(p) =>
         IF uid[p] \notin DOMAIN users THEN users' = users
         ELSE LET before == users[uid[p]]
                  after == users'[uid[p]]
                  changed == {c \in DOMAIN before : after[c] # before[c]}
              IN /\ \A c \in Counters : after[c] <= before[c]
                 /\ users' # users =>
                      \E pr \in ResetPairs :
                        /\ changed \subseteq {pr[1], pr[2]}
                        /\ after[pr[1]] = 0
                        /\ after[pr[2]] = tnow[p]]_vars

\* C18's case: an allowed check that has reset a daily count above 0; no
\* commit has followed.
C18_Witness ==
  \E p \in Procs :
    /\ Decided(p, "checkUsage")
    /\ outcome[p] = "allowed"
    /\ "daily" \in wrote[p]
    /\ snap[p].daily_message_count > 0
    /\ users[uid[p]].daily_message_count = 0

\* The entitlement columns.
EntitlementCols ==
  {"subscription_tier", "subscription_status", "subscription_period_end"}

\* C19: no step of checkUsage, checkProUsage, incrementUsage or
\* incrementProUsage changes a user's subscription_tier,
\* subscription_status or subscription_period_end.
C19_EngineKeepsEntitlement ==
  [][\A p \in Procs :
       pc'[p] # pc[p] =>
         \A u \in DOMAIN users, c \in EntitlementCols :
           users'[u][c] = users[u][c]]_vars

\* C19's case: a check has written the monthly reset of an active pro
\* subscriber whose billing period had ended; the period end is as read.
C19_Witness ==
  \E p \in Procs :
    /\ Decided(p, "checkUsage")
    /\ "monthly" \in wrote[p]
    /\ snap[p].subscription_period_end # NULL
    /\ users[uid[p]].subscription_period_end = snap[p].subscription_period_end
    /\ users[uid[p]].subscription_tier = "pro"
    /\ users[uid[p]].subscription_status = "active"

\* The decision of checkUsage as the limits give it from the row the check
\* read and the resets it wrote.
DecisionFromOwnRow(p) ==
  IF /\ MonthlyLimitFor(snap[p]) # NULL
     /\ PostMonthly(p) >= MonthlyLimitFor(snap[p])
  THEN "limit_monthly"
  ELSE IF /\ DailyLimitFor(snap[p]) # Infinity
          /\ PostDaily(p) >= DailyLimitFor(snap[p])
       THEN "limit_daily"
       ELSE "allowed"

\* C20: operations on different users are independent under every
\* interleaving: a step of a check or commit for user A leaves every other
\* user's row unchanged, a select for A returns the columns of A's row, and
\* the decision of a check for A is the one the limits give from that row.
C20_UsersIndependent ==
  /\ [](\A p \in Procs :
          Decided(p, "checkUsage") => outcome[p] = DecisionFromOwnRow(p))
  /\ [][\A p \in Procs :
          pc'[p] # pc[p] =>
            /\ \A u \in DOMAIN users : u # uid'[p] => users'[u] = users[u]
            /\ (pc[p] = "cu_select" /\ pc'[p] = "cu_eval") =>
                 snap'[p] = Select(users[uid[p]], CheckUsageCols)
            /\ (pc[p] = "iu_select" /\ pc'[p] = "iu_update") =>
                 snap'[p] = Select(users[uid[p]], IncrementUsageCols)]_vars

\* C20's case: a check for the free user is denied at the daily limit while
\* a commit for the other user, whose counts differ, is between its select
\* and its update.
C20_Witness ==
  \E p, q \in Procs :
    /\ uid[p] = "u1" /\ uid[q] = "u2"
    /\ Decided(p, "checkUsage")
    /\ outcome[p] = "limit_daily"
    /\ pc[q] = "iu_update"
    /\ users["u2"].daily_message_count < users["u1"].daily_message_count

\* C21: checkUsage on a row whose tier is outside free, pro, max, ultra
\* never ends in an error of its own and applies the free tier's limits: a
\* non-anonymous user is denied iff the post-reset daily count is >= the
\* free daily limit, and allowed otherwise.
C21_UnknownTierIsFree ==
  \A p \in Procs :
    (/\ pc[p] = "done" /\ op[p] = "checkUsage"
     /\ outcome[p] \notin StoreErrors
     /\ snap[p].subscription_tier \notin Tiers
     /\ ~snap[p].anonymous)
      => outcome[p] = IF PostDaily(p) >= TIER_LIMITS.free.dailyMessages
                      THEN "limit_daily" ELSE "allowed"

\* C22: checkProUsage for a max or ultra subscriber with an active
\* subscription is never denied with the pro-model usage-limit error,
\* whatever daily_pro_message_count is.
C22_MaxUltraPassProCap ==
  \A p \in Procs :
    (/\ pc[p] = "done" /\ op[p] = "checkProUsage"
     /\ uid[p] \in DOMAIN users
     /\ users[uid[p]].subscription_tier \in {"max", "ultra"}
     /\ users[uid[p]].subscription_status = "active")
      => outcome[p] # "limit_pro"

\* C23: checkUsage for a non-anonymous user whose tier is max or ultra is
\* never denied with a usage-limit error, whatever the daily and monthly
\* counts and however many commits came before: it allows.
C23_MaxUltraUnlimited ==
  \A p \in Procs :
    (/\ Decided(p, "checkUsage")
     /\ ~snap[p].anonymous
     /\ snap[p].subscription_tier \in {"max", "ultra"})
      => outcome[p] = "allowed"

\* C23's case: a max or ultra user is allowed with a daily count, kept by
\* the check, that has reached the free tier's daily limit.
C23_Witness ==
  \E p \in Procs :
    /\ Decided(p, "checkUsage")
    /\ ~snap[p].anonymous
    /\ snap[p].subscription_tier \in {"max", "ultra"}
    /\ "daily" \notin wrote[p]
    /\ snap[p].daily_message_count >= FreeDailyCap
    /\ outcome[p] = "allowed"

\* C24: for an anonymous user checkUsage applies the fixed anonymous cap
\* and nothing else, whatever tier is stored: it denies iff the post-reset
\* daily count is >= NON_AUTH_DAILY_MESSAGE_LIMIT and allows otherwise.
C24_AnonymousCapOnly ==
  \A p \in Procs :
    (Decided(p, "checkUsage") /\ snap[p].anonymous) =>
      /\ outcome[p] \in UsageLimitErrors
           <=> PostDaily(p) >= NON_AUTH_DAILY_MESSAGE_LIMIT
      /\ outcome[p] = "allowed" <=> PostDaily(p) < NON_AUTH_DAILY_MESSAGE_LIMIT

\* C25: in every reachable state, under every interleaving of the checks,
\* commits and resets of two requests, every counter of every row
\* (message_count, daily_message_count, monthly_message_count,
\* daily_pro_message_count) is a non-negative integer.
C25_CountersNonNegative ==
  \A u \in DOMAIN users, c \in Counters : users[u][c] \in Nat

\* C25's case: a check has reset a daily count that commits had raised, and
\* the other request's commit is between its select and its update.
C25_Witness ==
  \E p, q \in Procs :
    /\ "daily" \in wrote[p]
    /\ snap[p].daily_message_count > 0
    /\ users[uid[p]].daily_message_count = 0
    /\ users[uid[p]].message_count > 0
    /\ pc[q] = "iu_update"

\* C28: of the concurrent checks of one user with a finite daily limit L, no
\* two that read the daily count L - 1 for the same UTC day are both
\* allowed.
C28_NoDoubleAdmission ==
  \A p, q \in Procs :
    (/\ p # q
     /\ uid[p] = uid[q]
     /\ Decided(p, "checkUsage") /\ Decided(q, "checkUsage")
     /\ DailyLimitFor(snap[p]) # Infinity
     /\ PostDaily(p) = DailyLimitFor(snap[p]) - 1
     /\ PostDaily(q) = DailyLimitFor(snap[q]) - 1
     /\ SameUTCDay(tnow[p], tnow[q]))
      => ~(outcome[p] = "allowed" /\ outcome[q] = "allowed")

\* C29: a commit does not undo a reset: the update of incrementUsage leaves
\* the stored daily_message_count at most 1 above what was stored before
\* it, so that after a reset the stored count is at most the number of
\* commits completed since.
C29_CommitKeepsReset ==
  [][\A p \in Procs :
       CommitOk(p) =>
         users'[uid[p]].daily_message_count
           <= users[uid[p]].daily_message_count + 1]_vars

\* C30: for an active pro subscriber whose billing period end is in the past
\* and stays where it is, the monthly count is reset by at most one check:
\* no check writes the monthly reset for a period end that an earlier
\* monthly reset has already answered.
C30_OneMonthlyResetPerPeriod ==
  \A p \in Procs :
    (op[p] = "checkUsage" /\ "monthly" \in wrote[p]) =>
      snap[p].monthly_reset < snap[p].subscription_period_end

\* What is left under each finite limit that applies to the row a check
\* read, counted from the post-reset counts.
LeftUnderLimits(p) ==
  (IF DailyLimitFor(snap[p]) # Infinity
   THEN {DailyLimitFor(snap[p]) - PostDaily(p)} ELSE {})
  \cup
  (IF MonthlyLimitFor(snap[p]) # NULL
   THEN {MonthlyLimitFor(snap[p]) - PostMonthly(p)} ELSE {})

MinOf(S) == CHOOSE m \in S : \A n \in S : m <= n

\* C26: after an allowed check the remaining messages reported for the user
\* are the minimum over the finite limits in force of limit minus
\* post-reset count, or null (unbounded) if no limit in force is finite,
\* and never negative.
C26_RemainingIsMinOverLimits ==
  \A p \in Procs :
    (Decided(p, "checkUsage") /\ outcome[p] = "allowed") =>
      /\ getRemainingMessages(users[uid[p]])
           = IF LeftUnderLimits(p) = {} THEN NULL ELSE MinOf(LeftUnderLimits(p))
      /\ getRemainingMessages(users[uid[p]]) # NULL
           => getRemainingMessages(users[uid[p]]) >= 0

\* The last checkMessageAccess call found the Autumn check failing: Autumn
\* not configured, an error in the response, a response of an unexpected
\* shape, or an exception.
AutumnCheckFailed ==
  \/ access.fn = "autumn-client" /\ ~autumnEnabled
  \/ autumnReply.kind \in {"throws", "error", "null_data", "no_object"}

\* C27: checkMessageAccess fails open: whenever the Autumn check failed, the
\* helper has returned allowed = true.
C27_FailsOpen ==
  (access.fn # "none" /\ AutumnCheckFailed) => access.allowed = "true"

\* The monthly decision of checkUsage on a row as stored, when no monthly
\* reset is due: usage.ts lines 47 and 70.
checkUsageMonthlyAllows(d) ==
  ~(isProActive(d) /\ monthlyLimitReached(d, d.monthly_message_count))

\* C31: hasMessageQuota returns true for every user whose tier is not pro,
\* and for a pro user true iff monthly_message_count is below the pro
\* monthly limit; it agrees with the monthly decision of checkUsage on every
\* record where no reset is due.
C31_QuotaIsProMonthlyLimit ==
  answers.hasMessageQuota # "undefined" =>
    /\ answers.hasMessageQuota
         = boolOf(IF tierOf(users.u1) # "pro" THEN TRUE
                  ELSE users.u1.monthly_message_count
                         < TIER_LIMITS.pro.monthlyMessages)
    /\ ~monthlyResetDue(users.u1, now) =>
         answers.hasMessageQuota = boolOf(checkUsageMonthlyAllows(users.u1))

\* C32: the counts an allowed checkUsage returns equal what is stored after
\* that check: dailyCount and monthlyCount are the post-reset values, 0 when
\* the check performed the corresponding reset.
C32_ReturnedCountsAreStored ==
  \A p \in Procs :
    (Decided(p, "checkUsage") /\ outcome[p] = "allowed") =>
      /\ checkUsageReturn(p).dailyCount = users[uid[p]].daily_message_count
      /\ checkUsageReturn(p).monthlyCount = users[uid[p]].monthly_message_count

\* The counter family a dispatcher's target evaluates or increments.
familyOf(target) ==
  IF target \in {"checkUsage", "incrementUsage"} THEN "standard"
  ELSE IF target \in {"checkProUsage", "incrementProUsage"} THEN "pro"
  ELSE "none"

\* C33: the counter family checked is the counter family committed: for
\* every modelId and authentication flag checkUsageByModel and
\* incrementUsageByModel select the same family, and every commit of the
\* chat being served increments a counter of the family its check evaluates
\* and no counter of the other.
C33_CheckedFamilyIsCommitted ==
  /\ [](\A m \in ModelIds, a \in BOOLEAN :
          familyOf(checkUsageByModelTarget(m, a))
            = familyOf(incrementUsageByModelTarget(m, a)))
  /\ [][\A u \in DOMAIN users :
          LET checkedFamily ==
                familyOf(checkUsageByModelTarget(session.modelId,
                                                 session.isAuthenticated))
          IN /\ users'[u].daily_message_count > users[u].daily_message_count
                  => checkedFamily = "standard"
             /\ users'[u].daily_pro_message_count > users[u].daily_pro_message_count
                  => checkedFamily = "pro"]_vars

\* C33's case: a pro-model chat of an authenticated user whose check opened
\* the pro-model window and whose commit has raised the pro-model count.
C33_Witness ==
  /\ session.modelId = "pro-model" /\ session.isAuthenticated
  /\ \E p \in Procs :
       /\ pc[p] = "done" /\ op[p] = "incrementProUsage" /\ outcome[p] = "ok"
       /\ users[uid[p]].daily_pro_reset # NULL
       /\ users[uid[p]].daily_pro_message_count
            = snap[p].daily_pro_message_count + 1
       /\ users[uid[p]].daily_message_count = 0

\* The chat being served is a pro-model chat of an unauthenticated caller.
UnauthenticatedProModel ==
  isProModel(session.modelId) /\ ~session.isAuthenticated

\* C34: for an unauthenticated caller and a pro model, checkUsageByModel
\* always denies with a usage-limit error without reading or writing the
\* store, and incrementUsageByModel returns without changing any counter.
C34_LoginRequiredTouchesNothing ==
  /\ [](UnauthenticatedProModel =>
          \A p \in Procs :
            /\ pc[p] \in {"idle", "done"}
            /\ snap[p] = NoData
            /\ wrote[p] = {}
            /\ pc[p] = "done" =>
                 \/ op[p] = "checkUsageByModel" /\ outcome[p] = "limit_login"
                 \/ op[p] = "incrementUsageByModel" /\ outcome[p] = "skipped")
  /\ [][UnauthenticatedProModel => users' = users]_vars

\* C34's case: the pro-model check of an unauthenticated caller, for a user
\* id that has a record, has thrown the log-in error.
C34_Witness ==
  /\ UnauthenticatedProModel
  /\ \E p \in Procs :
       /\ pc[p] = "done" /\ op[p] = "checkUsageByModel"
       /\ uid[p] \in DOMAIN users
       /\ outcome[p] = "limit_login"

\* C35: in every reachable state the overall message_count of each user is
\* at least its daily_message_count, under any interleaving of checks and
\* commits.
C35_OverallAtLeastDaily ==
  \A u \in DOMAIN users :
    users[u].message_count >= users[u].daily_message_count

\* C35's case: two requests of one user in flight, after a daily reset has
\* lowered the daily count and a commit has raised both counts again.
C35_Witness ==
  /\ \A p \in Procs : pc[p] # "idle"
  /\ \E u \in DOMAIN users :
       /\ users[u].daily_reset # NULL
       /\ users[u].daily_message_count >= 1
       /\ users[u].message_count > users[u].daily_message_count

\* The subscription_status the handler of event ev passes to
\* updateUserSubscription.
statusWritten(ev) ==
  CASE ev.type \in {"created", "active"} -> "active"
    [] ev.type = "updated" -> mapStatus(ev.status)
    [] ev.type = "canceled" -> "canceled"
    [] ev.type = "revoked" -> NoStatus

\* What the record of the event's user shows after the event.
EventEffects(ev, old, row) ==
  /\ ev.type = "canceled" =>
       row.subscription_tier = "free" /\ row.subscription_status = "canceled"
  /\ ev.type = "revoked" =>
       /\ row.subscription_tier = "free"
       /\ row.subscription_status = NoStatus
       /\ row.subscription_period_end = NULL
  /\ statusWritten(ev) = "active" => row.monthly_message_count = 0
  /\ statusWritten(ev) # "active" =>
       row.monthly_message_count = old.monthly_message_count

Answered(h) == answers[h] # "undefined"
Yes(h) == answers[h] = "true"

\* C37: the access helpers form a hierarchy over every (tier, status) pair:
\* hasUltraAccess implies hasMaxAccess implies hasProAccess implies
\* hasActiveSubscription, canAccessPremiumModels equals hasUltraAccess, and
\* canAccessProModels is true exactly for tiers pro, max, ultra with status
\* active.
C37_AccessHierarchy ==
  /\ (Yes("hasUltraAccess") /\ Answered("hasMaxAccess")) => Yes("hasMaxAccess")
  /\ (Yes("hasMaxAccess") /\ Answered("hasProAccess")) => Yes("hasProAccess")
  /\ (Yes("hasProAccess") /\ Answered("hasActiveSubscription"))
       => Yes("hasActiveSubscription")
  /\ (Answered("canAccessPremiumModels") /\ Answered("hasUltraAccess"))
       => answers.canAccessPremiumModels = answers.hasUltraAccess
  /\ Answered("canAccessProModels") =>
       answers.canAccessProModels
         = boolOf(/\ users.u1.subscription_tier \in {"pro", "max", "ultra"}
                  /\ users.u1.subscription_status = "active")

\* C37's case: every helper has answered on the row of an active ultra
\* subscriber, each with true.
C37_Witness ==
  /\ users.u1.subscription_tier = "ultra"
  /\ users.u1.subscription_status = "active"
  /\ \A h \in HelperNames : Yes(h)

\* The customer lookup or the subscriptions lookup of the last Polar call
\* failed.
PolarLookupFailed ==
  \/ polar.customer \in {"list_throws", "create_throws"}
  \/ polar.subscriptions.kind = "throws"

\* C38: the Polar checkMessageAccess never denies: on every path it returns
\* allowed = true, and it reports tier free whenever the customer or the
\* subscription lookup fails.
C38_PolarNeverDenies ==
  polar.fn # "none" =>
    /\ polar.result.allowed
    /\ polar.fn = "checkMessageAccess" => polar.answer = "true"
    /\ PolarLookupFailed => polar.result.tier = "free"
    /\ (polar.fn = "getCustomerTier" /\ PolarLookupFailed) => polar.answer = "free"

\* C38's case: checkMessageAccess has returned for a customer whose
\* subscriptions could not be listed.
C38_Witness ==
  /\ polar.fn = "checkMessageAccess"
  /\ polar.customer = "created"
  /\ polar.subscriptions.kind = "throws"
  /\ polar.answer = "true"

====
